---- MODULE Spec2Model ----
(***************************************************************************)
(* csv-rw: a delimited-text file used as a collection of typed records.    *)
(*                                                                         *)
(* The model follows src/src/csv.ts (class CSV) with src/src/parser.ts     *)
(* (the row and value codec it imports) and the readLinesSync helper of    *)
(* src/lib.  The earlier variant of the class, src/src/index.ts, is        *)
(* modelled next to it: its operations carry the prefix Index (or their    *)
(* own name where csv.ts has no such method), its instances are            *)
(* obj = "index", and the decode its read() does inline is indexReadValue. *)
(*                                                                         *)
(* Text is a sequence of one-character strings.  The file is the sequence  *)
(* of its lines: the file's text is the lines joined by "\n", so a file of *)
(* n lines holds n - 1 line breaks and the empty file is one empty line.   *)
(* No value of the model holds a line break.                               *)
(*                                                                         *)
(* A Value is [t, s]: t the JavaScript type ("str", "num", "bool", "null", *)
(* "undef"), s the text String(value) yields.  A number is carried by its  *)
(* canonical decimal text.                                                 *)
(***************************************************************************)
EXTENDS Integers, Sequences, FiniteSets, TLC

VARIABLES
    exists,      \* fs.existsSync(path)
    file,        \* the lines of the file at path (meaningful when exists)
    obj,         \* "none" | "csv" (csv.ts) | "index" (index.ts) | "thrown" (constructor threw)
    headers,     \* this.headers
    delimiter,   \* this.delimiter
    stored,      \* this.stored
    thrown,      \* the error of a failed construction: [h, ch], else NoError
    optsHeaders, \* the opts.headers the constructor was called with
    written,     \* the entries passed to write() since the file was last header-only
    readResult,  \* outcome of the last read(): [st, rows]
    tok,         \* value codec: the text token under decode
    decoded,     \* value codec: [by, v] the decoder applied and its result
    op,          \* the last operation called: [name, flag, pred, rows, st]
    result,      \* what the last find, filter or map resolved to: [st, value]
    json,        \* the chunks toJson() wrote to its output file, in order
    pending,     \* flush() suspended in await this.write(...): [active, lines]
    lineCalls    \* readLinesSync: [limit, cbs], cbs the callback calls [line, i]

vars == <<exists, file, obj, headers, delimiter, stored, thrown, optsHeaders,
          written, readResult, tok, decoded, op, result, json, pending, lineCalls>>

-----------------------------------------------------------------------------
(* Characters and JavaScript string primitives *)

LowerAZ == <<"a","b","c","d","e","f","g","h","i","j","k","l","m",
             "n","o","p","q","r","s","t","u","v","w","x","y","z">>

UpperAZ == <<"A","B","C","D","E","F","G","H","I","J","K","L","M",
             "N","O","P","Q","R","S","T","U","V","W","X","Y","Z">>

Digits == {"0","1","2","3","4","5","6","7","8","9"}

Letters == {LowerAZ[i] : i \in 1..26} \cup {UpperAZ[i] : i \in 1..26}

QUOTE == "\""

\* \s of a regular expression and the set String.prototype.trim removes,
\* restricted to the characters of the model (no tab, no line break).
WhiteSpace == {" "}

\* the lower-case letter of each upper-case letter
LowerOf == [c \in {UpperAZ[i] : i \in 1..26} |->
               LowerAZ[CHOOSE i \in 1..26 : UpperAZ[i] = c]]

\* String.prototype.toLowerCase, one character
LowerChar(c) == IF c \in DOMAIN LowerOf THEN LowerOf[c] ELSE c

toLowerCase(s) == [i \in 1..Len(s) |-> LowerChar(s[i])]

\* index of the first / last character that is not white space (0 if none)
RECURSIVE FirstNonWsFrom(_, _)
FirstNonWsFrom(s, i) ==
    IF i > Len(s) THEN 0
    ELSE IF s[i] \in WhiteSpace THEN FirstNonWsFrom(s, i + 1)
    ELSE i

FirstNonWs(s) == FirstNonWsFrom(s, 1)

RECURSIVE LastNonWsFrom(_, _)
LastNonWsFrom(s, i) ==
    IF i < 1 THEN 0
    ELSE IF s[i] \in WhiteSpace THEN LastNonWsFrom(s, i - 1)
    ELSE i

LastNonWs(s) == LastNonWsFrom(s, Len(s))

\* String.prototype.trim
trim(s) ==
    LET a == FirstNonWs(s)
    IN  IF a = 0 THEN <<>> ELSE SubSeq(s, a, LastNonWs(s))

\* String.prototype.includes, for a one-character needle
includes(s, c) == \E i \in 1..Len(s) : s[i] = c

startsWith(s, c) == Len(s) >= 1 /\ s[1] = c

endsWith(s, c) == Len(s) >= 1 /\ s[Len(s)] = c

\* Array.prototype.join with a one-character separator
RECURSIVE join(_, _)
join(parts, d) ==
    IF Len(parts) = 0 THEN <<>>
    ELSE IF Len(parts) = 1 THEN parts[1]
    ELSE parts[1] \o <<d>> \o join(Tail(parts), d)

\* String.prototype.split with a one-character separator: "" gives [""]
RECURSIVE split(_, _)
split(s, d) ==
    IF ~includes(s, d) THEN <<s>>
    ELSE LET k == CHOOSE i \in 1..Len(s) : s[i] = d /\ \A j \in 1..(i-1) : s[j] # d
         IN  <<SubSeq(s, 1, k - 1)>> \o split(SubSeq(s, k + 1, Len(s)), d)

-----------------------------------------------------------------------------
(* Values *)

Null == [t |-> "null", s |-> <<>>]

Undefined == [t |-> "undef", s |-> <<>>]

TrueText == <<"t","r","u","e">>

FalseText == <<"f","a","l","s","e">>

NullText == <<"n","u","l","l">>

Bool(b) == [t |-> "bool", s |-> IF b THEN TrueText ELSE FalseText]

Num(text) == [t |-> "num", s |-> text]

Str(text) == [t |-> "str", s |-> text]

\* The unary plus of JavaScript on a string (ToNumber): white space is trimmed,
\* the empty string is 0, a StrNumericLiteral is its value, anything else NaN.
\* The literal grammar is the signed decimal integer: the model's texts hold
\* no ".", no exponent and no radix prefix.
IsDecimalLiteral(s) ==
    LET body == IF Len(s) >= 1 /\ s[1] \in {"-", "+"} THEN Tail(s) ELSE s
    IN  Len(body) >= 1 /\ \A i \in 1..Len(body) : body[i] \in Digits

isNaNPlus(v) == LET s == trim(v) IN ~(s = <<>> \/ IsDecimalLiteral(s))

\* String(+v) for a v that is not NaN: no sign for zero, no leading zeros
RECURSIVE DropZeros(_)
DropZeros(ds) ==
    IF Len(ds) > 1 /\ ds[1] = "0" THEN DropZeros(Tail(ds)) ELSE ds

plusText(v) ==
    LET s    == trim(v)
        neg  == Len(s) >= 1 /\ s[1] = "-"
        body == IF Len(s) >= 1 /\ s[1] \in {"-", "+"} THEN Tail(s) ELSE s
        mag  == IF body = <<>> THEN <<"0">> ELSE DropZeros(body)
    IN  IF neg /\ mag # <<"0">> THEN <<"-">> \o mag ELSE mag

-----------------------------------------------------------------------------
(* Value codec: src/src/parser.ts parseValue, src/src/index.ts read() *)

\* parser.parseValue(v)
parseValue(v) ==
    LET w == trim(toLowerCase(v))
    IN  IF w = NullText \/ w = <<>> THEN Null
        ELSE IF w = TrueText \/ w = FalseText THEN Bool(w = TrueText)
        ELSE IF ~isNaNPlus(w) THEN Num(plusText(w))
        ELSE Str(w)

\* The decode written inline in read() of the earlier class (index.ts):
\* the numeric test comes first and nothing is trimmed or lower-cased.
indexReadValue(v) ==
    IF ~isNaNPlus(v) THEN Num(plusText(v))
    ELSE IF v = TrueText \/ v = FalseText THEN Bool(v = TrueText)
    ELSE IF v = NullText THEN Null
    ELSE Str(v)

-----------------------------------------------------------------------------
(* Entries: a JavaScript object is the sequence of its [k, v] properties   *)
(* in insertion order.                                                     *)

HasKey(entry, k) == \E i \in 1..Len(entry) : entry[i].k = k

\* entry[k]
Get(entry, k) ==
    IF HasKey(entry, k)
    THEN entry[CHOOSE i \in 1..Len(entry) : entry[i].k = k].v
    ELSE Undefined

\* entry[k] = v
Put(entry, k, v) ==
    IF HasKey(entry, k)
    THEN [i \in 1..Len(entry) |-> IF entry[i].k = k THEN [k |-> k, v |-> v] ELSE entry[i]]
    ELSE Append(entry, [k |-> k, v |-> v])

-----------------------------------------------------------------------------
(* Row codec: src/src/parser.ts *)

\* opts = {} : no delimiter option is passed
NoOption == "undefined"

\* opts.delimiter ?? ","
DefaultDelimiter(optDelimiter) == IF optDelimiter = NoOption THEN "," ELSE optDelimiter

\* one element of getRowValuesFromHeaders: the value itself, the value in
\* double quotes when its text includes the delimiter, "null" for null
rowValue(e, d) ==
    IF e.t # "null"
    THEN IF e.t # "undef" /\ includes(e.s, d)
         THEN Str(<<QUOTE>> \o e.s \o <<QUOTE>>)
         ELSE e
    ELSE Str(NullText)

\* parser.getRowValuesFromHeaders(headers, entry, opts)
getRowValuesFromHeaders(hs, entry, optDelimiter) ==
    [i \in 1..Len(hs) |-> rowValue(Get(entry, hs[i]), DefaultDelimiter(optDelimiter))]

\* The regular expression of parseRow, /(".*?"|[^",\s]+)(?=\s*,|\s*$)/g .
\* (?=\s*,|\s*$) at position k: after the white space from k on, a comma or
\* the end of the line.
RECURSIVE SkipWs(_, _)
SkipWs(s, k) ==
    IF k > Len(s) THEN Len(s) + 1
    ELSE IF s[k] \in WhiteSpace THEN SkipWs(s, k + 1)
    ELSE k

LookAhead(s, k) == LET n == SkipWs(s, k) IN n > Len(s) \/ s[n] = ","

\* [^",\s]
FieldChar(c) == c # QUOTE /\ c # "," /\ c \notin WhiteSpace

\* ".*?" from the quote at i: the nearest closing quote the look-ahead accepts
\* (the lazy star gives way to later quotes); 0 when there is none.
QuotedEnd(s, i) ==
    LET ends == {j \in (i+1)..Len(s) : s[j] = QUOTE /\ LookAhead(s, j + 1)}
    IN  IF ends = {} THEN 0 ELSE CHOOSE j \in ends : \A m \in ends : j <= m

\* [^",\s]+ from i: the greedy run; a shorter run is followed by a field
\* character, which the look-ahead refuses, so only the whole run can match.
RECURSIVE RunEnd(_, _)
RunEnd(s, i) ==
    IF i < Len(s) /\ FieldChar(s[i + 1]) THEN RunEnd(s, i + 1) ELSE i

\* the end of the match that starts at i, 0 when none starts there
MatchAt(s, i) ==
    IF s[i] = QUOTE THEN QuotedEnd(s, i)
    ELSE IF FieldChar(s[i])
    THEN LET j == RunEnd(s, i) IN IF LookAhead(s, j + 1) THEN j ELSE 0
    ELSE 0

\* line.match(re) from lastIndex i on: the matches left to right
RECURSIVE MatchFrom(_, _)
MatchFrom(s, i) ==
    IF i > Len(s) THEN <<>>
    ELSE LET m == MatchAt(s, i)
         IN  IF m = 0 THEN MatchFrom(s, i + 1)
             ELSE <<SubSeq(s, i, m)>> \o MatchFrom(s, m + 1)

\* String.prototype.match with a global expression.  A result is never the
\* empty array: the empty sequence stands for the null of "no match".
match(s) == MatchFrom(s, 1)

\* v.substring(1, v.length - 1) when v starts and ends with a double quote
\* (substring swaps its arguments when the first is larger)
unquote(v) ==
    IF startsWith(v, QUOTE) /\ endsWith(v, QUOTE)
    THEN IF Len(v) >= 2 THEN SubSeq(v, 2, Len(v) - 1) ELSE v
    ELSE v

\* the key of element i (from 0) of an array, i < 10
IndexKey(i) == <<(<<"0","1","2","3","4","5","6","7","8","9">>)[i + 1]>>

RECURSIVE rowObject(_, _, _)
rowObject(hs, parsed, n) ==
    IF n = 0 THEN <<>>
    ELSE Put(rowObject(hs, parsed, n - 1), hs[n], parseValue(unquote(parsed[n])))

\* parser.parseRow(line, {delimiter, headers}): [st |-> "ok", row] or
\* [st |-> "throw"] for the TypeError of parsed[i] on null or of
\* v.startsWith on undefined.  The delimiter option is read and never used.
parseRow(line, optDelimiter, hs) ==
    LET parsed == match(line)
        l      == Len(hs)
    IN  IF l > 0
        THEN IF Len(parsed) < l
             THEN [st |-> "throw", row |-> <<>>]
             ELSE [st |-> "ok", row |-> rowObject(hs, parsed, l)]
        ELSE IF parsed = <<>>
             THEN [st |-> "throw", row |-> <<>>]
             ELSE [st |-> "ok",
                   row |-> [i \in 1..Len(parsed) |->
                              [k |-> IndexKey(i - 1), v |-> parseValue(parsed[i])]]]

-----------------------------------------------------------------------------
(* Header schema: src/src/csv.ts stripHeaders *)

\* the replace without the g flag: only the first match is removed
replaceTypingFirstMatch(h) ==
    IF Len(h) >= 2 /\ h[1] \in {"n", "b", "s"} /\ h[2] = ":"
    THEN SubSeq(h, 3, Len(h))
    ELSE IF endsWith(h, "?") THEN SubSeq(h, 1, Len(h) - 1) ELSE h

\* h.replace(/^(n|b|s):|\?$/g, ""): the type prefix at the front and one "?"
\* at the very end are removed (the two matches never overlap)
replaceTyping(h) ==
    LET body == IF Len(h) >= 2 /\ h[1] \in {"n", "b", "s"} /\ h[2] = ":"
                THEN SubSeq(h, 3, Len(h)) ELSE h
    IN  IF endsWith(body, "?") THEN SubSeq(body, 1, Len(body) - 1) ELSE body

\* [^0-9a-z] under the i flag
NotAlnum(c) == c \notin Digits /\ c \notin Letters

\* the match with a class that lets the space through, /[^0-9a-z ]/i
matchNotAlnumNorSpace(h) ==
    IF \E i \in 1..Len(h) : NotAlnum(h[i]) /\ h[i] # " "
    THEN CHOOSE i \in 1..Len(h) :
            /\ NotAlnum(h[i]) /\ h[i] # " "
            /\ \A j \in 1..(i-1) : ~(NotAlnum(h[j]) /\ h[j] # " ")
    ELSE 0

\* h.match(/[^0-9a-z]/i): the index of the first match, 0 for null
matchNotAlnum(h) ==
    IF \E i \in 1..Len(h) : NotAlnum(h[i])
    THEN CHOOSE i \in 1..Len(h) : NotAlnum(h[i]) /\ \A j \in 1..(i-1) : ~NotAlnum(h[j])
    ELSE 0

\* the two maps of stripHeaders
stripOne(h) == trim(replaceTyping(h))

NoError == [h |-> <<>>, ch |-> ""]

\* CSV.stripHeaders(headers): [st |-> "ok", hs] or [st |-> "throw", err]
\* with err the header and the character the Error message names
stripHeaders(hs) ==
    LET stripped == [i \in 1..Len(hs) |-> stripOne(hs[i])]
        bad      == {i \in 1..Len(hs) : matchNotAlnum(stripped[i]) # 0}
    IN  IF Len(hs) = 0 THEN [st |-> "ok", hs |-> <<>>, err |-> NoError]
        ELSE IF bad # {}
        THEN LET i == CHOOSE i \in bad : \A j \in bad : i <= j
             IN  [st |-> "throw", hs |-> <<>>,
                  err |-> [h |-> stripped[i], ch |-> stripped[i][matchNotAlnum(stripped[i])]]]
        ELSE [st |-> "ok", hs |-> stripped, err |-> NoError]

-----------------------------------------------------------------------------
(* The file *)

\* readLinesSync(path, cb, limit): the lines cb is called with, in order.
\* cb runs when a "\n" is read, so the text after the last line break is
\* never passed; a truthy limit stops the loop after limit calls.
readLinesSync(lines, limit) ==
    LET ended == SubSeq(lines, 1, Len(lines) - 1)
    IN  IF limit > 0 /\ Len(ended) > limit THEN SubSeq(ended, 1, limit) ELSE ended

\* the calls cb(line, i) readLinesSync makes: i counts the calls from 0
readLinesSyncCalls(lines, limit) ==
    [k \in 1..Len(readLinesSync(lines, limit)) |->
        [line |-> readLinesSync(lines, limit)[k], i |-> k - 1]]

\* reader.pipe(split2()): the chunks of the text between line breaks; the
\* text after the last line break is emitted only when it is not empty
split2(lines) ==
    IF lines[Len(lines)] = <<>> THEN SubSeq(lines, 1, Len(lines) - 1) ELSE lines

\* the header names joined by "," whatever the delimiter
headerLineComma(hs, d) == join(hs, ",")

\* headers.join(this.delimiter), the text the constructor and clear() write
headerLine(hs, d) == join(hs, d)

\* CSV.init(deletePrevious): the headers and the file it leaves
init(hs, d, deletePrevious, ex, f) ==
    LET created == ~ex \/ deletePrevious
        f1      == IF created THEN <<headerLine(hs, d)>> ELSE f
        calls   == readLinesSync(f1, 1)
        hs1     == IF ex /\ Len(hs) = 0 /\ Len(calls) > 0
                   THEN split(calls[Len(calls)], d) ELSE hs
    IN  [headers |-> hs1, file |-> f1]

\* values.join(this.delimiter) of write(), after .map(v => v ?? "null")
rowLine(hs, entry, d) ==
    LET values == getRowValuesFromHeaders(hs, entry, NoOption)
        texts  == [i \in 1..Len(values) |->
                     IF values[i].t \in {"undef", "null"} THEN NullText ELSE values[i].s]
    IN  join(texts, d)

\* the rows read() collects: the first line is skipped, every other line
\* goes through parser.parseRow
readRows(lines, d, hs) ==
    LET ls == split2(lines)
    IN  [i \in 1..(Len(ls) - 1) |-> parseRow(ls[i + 1], d, hs)]

NoRead == [st |-> "none", rows |-> <<>>]

\* CSV.read(): the entries the promise resolves to; a parseRow that throws
\* inside the "data" listener is an uncaught exception and the promise is
\* never settled.
read(lines, d, hs) ==
    LET rs == readRows(lines, d, hs)
    IN  IF \E i \in 1..Len(rs) : rs[i].st = "throw"
        THEN [st |-> "throw", rows |-> <<>>]
        ELSE [st |-> "ok", rows |-> [i \in 1..Len(rs) |-> rs[i].row]]

-----------------------------------------------------------------------------
(* Operations of class CSV (src/src/csv.ts) *)

NoDecode == [by |-> "none", v |-> Null]

NoResult == [st |-> "none", value |-> <<>>]

NoFlush == [active |-> FALSE, lines |-> <<>>]

NoCalls == [limit |-> 0, cbs |-> <<>>]

\* the record lines of the file
RecordLines == IF exists THEN Len(file) - 1 ELSE 0

\* a predicate callback x => x[k] === v; NoPred when the call takes none
NoPred == [k |-> <<>>, v |-> Null]

\* the call being made: its name, its boolean argument if it has one, its
\* predicate if it has one, the record lines of the file when it was made,
\* and how it ended ("ok", or "throw" when it raised or never settled)
Op(name, flag, pred, st) ==
    [name |-> name, flag |-> flag, pred |-> pred, rows |-> RecordLines, st |-> st]

NoOp == [name |-> "none", flag |-> FALSE, pred |-> NoPred, rows |-> 0, st |-> "ok"]

\* new CSV({path, headers, delimiter, deletePrevious})
Construct(oh, d, deletePrevious) ==
    /\ obj = "none"
    /\ optsHeaders' = oh
    /\ LET r == stripHeaders(oh)
       IN  IF r.st = "throw"
           THEN /\ obj' = "thrown"
                /\ thrown' = r.err
                /\ UNCHANGED <<exists, file, headers, delimiter, stored>>
           ELSE LET i == init(r.hs, d, deletePrevious, exists, file)
                IN  /\ obj' = "csv"
                    /\ headers' = i.headers
                    /\ delimiter' = d
                    /\ stored' = <<>>
                    /\ exists' = TRUE
                    /\ file' = i.file
                    /\ UNCHANGED thrown
    /\ op' = Op("construct", deletePrevious, NoPred,
                 IF stripHeaders(oh).st = "throw" THEN "throw" ELSE "ok")
    /\ UNCHANGED <<result, json, pending, lineCalls>>
    /\ UNCHANGED <<written, readResult, tok, decoded>>

\* if (!Array.isArray(entries)) entries = [entries]
\* (arg is [isArray, one, many]: the entry passed, or the array passed)
asArray(arg) == IF arg.isArray THEN arg.many ELSE <<arg.one>>

\* write() on a stream opened without the flag "a": the file is truncated
\* and holds only what this call writes
WriteTruncating(arg) ==
    /\ obj = "csv"
    /\ LET arr == asArray(arg)
       IN  /\ file' = <<<<>>>> \o [i \in 1..Len(arr) |-> rowLine(headers, arr[i], delimiter)]
           /\ written' = arr
    /\ exists' = TRUE
    /\ readResult' = NoRead
    /\ op' = Op("write", FALSE, NoPred, "ok")
    /\ UNCHANGED <<result, json, pending, lineCalls>>
    /\ UNCHANGED <<obj, headers, delimiter, stored, thrown, optsHeaders, tok, decoded>>

\* csv.write(entries): one "\n" + line appended per entry
Write(arg) ==
    /\ obj = "csv"
    /\ LET arr == asArray(arg)
       IN  /\ file' = file \o [i \in 1..Len(arr) |-> rowLine(headers, arr[i], delimiter)]
           /\ written' = written \o arr
    /\ exists' = TRUE
    /\ readResult' = NoRead
    /\ op' = Op("write", FALSE, NoPred, "ok")
    /\ UNCHANGED <<result, json, pending, lineCalls>>
    /\ UNCHANGED <<obj, headers, delimiter, stored, thrown, optsHeaders, tok, decoded>>

\* csv.read()
Read ==
    /\ obj = "csv"
    /\ exists
    /\ readResult' = read(file, delimiter, headers)
    /\ op' = Op("read", FALSE, NoPred, read(file, delimiter, headers).st)
    /\ UNCHANGED <<result, json, pending, lineCalls>>
    /\ UNCHANGED <<exists, file, obj, headers, delimiter, stored, thrown,
                   optsHeaders, written, tok, decoded>>

\* csv.clear()
Clear ==
    /\ obj = "csv"
    /\ file' = <<headerLine(headers, delimiter)>>
    /\ exists' = TRUE
    /\ written' = <<>>
    /\ readResult' = NoRead
    /\ op' = Op("clear", FALSE, NoPred, "ok")
    /\ UNCHANGED <<result, json, pending, lineCalls>>
    /\ UNCHANGED <<obj, headers, delimiter, stored, thrown, optsHeaders, tok, decoded>>

\* parser.parseValue applied to a token
DecodeParseValue ==
    /\ decoded' = [by |-> "parser", v |-> parseValue(tok)]
    /\ op' = Op("parseValue", FALSE, NoPred, "ok")
    /\ UNCHANGED <<result, json, pending, lineCalls>>
    /\ UNCHANGED <<exists, file, obj, headers, delimiter, stored, thrown,
                   optsHeaders, written, readResult, tok>>

\* the decode of read() in src/src/index.ts applied to a token
DecodeIndexRead ==
    /\ decoded' = [by |-> "index", v |-> indexReadValue(tok)]
    /\ op' = Op("indexReadValue", FALSE, NoPred, "ok")
    /\ UNCHANGED <<result, json, pending, lineCalls>>
    /\ UNCHANGED <<exists, file, obj, headers, delimiter, stored, thrown,
                   optsHeaders, written, readResult, tok>>

\* readLinesSync(path, cb, limit) of src/lib called on the file
ReadLinesSync(limit) ==
    /\ exists
    /\ lineCalls' = [limit |-> limit, cbs |-> readLinesSyncCalls(file, limit)]
    /\ op' = Op("readLinesSync", FALSE, NoPred, "ok")
    /\ UNCHANGED <<exists, file, obj, headers, delimiter, stored, thrown,
                   optsHeaders, written, readResult, tok, decoded>>
    /\ UNCHANGED <<result, json, pending>>

-----------------------------------------------------------------------------
(* Callbacks and array primitives used by the collection operations *)

\* the predicate x => x[k] === v applied to an entry
Holds(pred, x) == Get(x, pred.k) = pred.v

\* Array.prototype.findLastIndex: the last entry the predicate holds for
findLastIndex(entries, pred) ==
    IF \E i \in 1..Len(entries) : Holds(pred, entries[i])
    THEN CHOOSE i \in 1..Len(entries) :
            Holds(pred, entries[i])
                /\ \A j \in (i+1)..Len(entries) : ~Holds(pred, entries[j])
    ELSE 0

\* Array.prototype.findIndex, as a position from 1; 0 for the -1 of "none"
findIndex(entries, pred) ==
    IF \E i \in 1..Len(entries) : Holds(pred, entries[i])
    THEN CHOOSE i \in 1..Len(entries) :
            Holds(pred, entries[i]) /\ \A j \in 1..(i-1) : ~Holds(pred, entries[j])
    ELSE 0

\* Array.prototype.filter
filter(entries, pred) == SelectSeq(entries, LAMBDA x : Holds(pred, x))

\* entries.splice(index, 1) for an index counted from 0: a negative index
\* counts from the end and stops at the start, an index past the end removes
\* nothing
splice(entries, index) ==
    LET len   == Len(entries)
        start == IF index < 0
                 THEN (IF len + index > 0 THEN len + index ELSE 0)
                 ELSE (IF index < len THEN index ELSE len)
    IN  IF start < len
        THEN SubSeq(entries, 1, start) \o SubSeq(entries, start + 2, len)
        ELSE entries

DigitValue(c) == CHOOSE n \in 0..9 : IndexKey(n) = <<c>>

RECURSIVE NatOf(_)
NatOf(ds) ==
    IF ds = <<>> THEN 0
    ELSE 10 * NatOf(SubSeq(ds, 1, Len(ds) - 1)) + DigitValue(ds[Len(ds)])

\* the unary plus on a value: [nan, n]
ToNumber(v) ==
    IF v.t = "null" THEN [nan |-> FALSE, n |-> 0]
    ELSE IF v.t = "bool" THEN [nan |-> FALSE, n |-> IF v.s = TrueText THEN 1 ELSE 0]
    ELSE IF v.t = "undef" \/ isNaNPlus(v.s) THEN [nan |-> TRUE, n |-> 0]
    ELSE LET s == plusText(v.s)
         IN  [nan |-> FALSE,
              n   |-> IF s[1] = "-" THEN 0 - NatOf(Tail(s)) ELSE NatOf(s)]

\* the comparator (a, b) => +a[k] - +b[k]; sort() reads a NaN result as 0
compareFn(k, a, b) ==
    IF ToNumber(Get(a, k)).nan \/ ToNumber(Get(b, k)).nan THEN 0
    ELSE ToNumber(Get(a, k)).n - ToNumber(Get(b, k)).n

\* Array.prototype.sort with that comparator: stable, so an element goes
\* behind the elements that do not compare greater than it
RECURSIVE sort(_, _)
sort(entries, k) ==
    IF Len(entries) <= 1 THEN entries
    ELSE LET front == sort(SubSeq(entries, 1, Len(entries) - 1), k)
             x     == entries[Len(entries)]
             n     == Cardinality({i \in 1..Len(front) : compareFn(k, front[i], x) <= 0})
         IN  SubSeq(front, 1, n) \o <<x>> \o SubSeq(front, n + 1, Len(front))

-----------------------------------------------------------------------------
(* Operations of class CSV (src/src/csv.ts), continued *)

\* the lines write() appends for an array of entries
rowLines(hs, entries, d) == [i \in 1..Len(entries) |-> rowLine(hs, entries[i], d)]

\* csv.store(entries)
Store(arg) ==
    /\ obj = "csv"
    /\ stored' = stored \o asArray(arg)
    /\ op' = Op("store", FALSE, NoPred, "ok")
    /\ UNCHANGED <<result, json, pending, lineCalls>>
    /\ UNCHANGED <<exists, file, obj, headers, delimiter, thrown, optsHeaders,
                   written, readResult, tok, decoded>>

\* csv.flush(): await this.write(this.stored); this.stored = []
Flush ==
    /\ obj = "csv"
    /\ file' = file \o rowLines(headers, stored, delimiter)
    /\ written' = written \o stored
    /\ stored' = <<>>
    /\ exists' = TRUE
    /\ readResult' = NoRead
    /\ op' = Op("flush", FALSE, NoPred, "ok")
    /\ UNCHANGED <<result, json, pending, lineCalls>>
    /\ UNCHANGED <<obj, headers, delimiter, thrown, optsHeaders, tok, decoded>>

\* csv.flush() up to its await: write(this.stored) runs its loop over the
\* entries the buffer holds now and closes the stream; flush is suspended
\* until the stream reports "close".  (One flush at a time.)
FlushBegin ==
    /\ obj = "csv"
    /\ ~pending.active
    /\ pending' = [active |-> TRUE, lines |-> rowLines(headers, stored, delimiter)]
    /\ op' = Op("flush", FALSE, NoPred, "pending")
    /\ UNCHANGED <<exists, file, obj, headers, delimiter, stored, thrown,
                   optsHeaders, written, readResult, tok, decoded>>
    /\ UNCHANGED <<result, json, lineCalls>>

\* csv.flush() from the "close" of the stream on: the lines are in the file,
\* the promise of write() resolves and flush runs this.stored = []
FlushEnd ==
    /\ obj = "csv"
    /\ pending.active
    /\ file' = file \o pending.lines
    /\ written' = written \o SubSeq(stored, 1, Len(pending.lines))
    /\ stored' = <<>>
    /\ pending' = NoFlush
    /\ exists' = TRUE
    /\ readResult' = NoRead
    /\ op' = Op("flush", FALSE, NoPred, "ok")
    /\ UNCHANGED <<obj, headers, delimiter, thrown, optsHeaders, tok, decoded>>
    /\ UNCHANGED <<result, json, lineCalls>>

\* sort() without the test of its write flag: it always calls write(entries)
SortAlwaysWrites(k, write) ==
    /\ obj = "csv"
    /\ exists
    /\ \E r \in {read(file, delimiter, headers)} :
       \E sorted \in {sort(r.rows, k)} :
           /\ op' = Op("sort", write, [k |-> k, v |-> Null], r.st)
           /\ IF r.st = "ok"
              THEN /\ file' = file \o rowLines(headers, sorted, delimiter)
                   /\ written' = written \o sorted
                   /\ readResult' = NoRead
              ELSE UNCHANGED <<file, written, readResult>>
    /\ UNCHANGED <<result, json, pending, lineCalls>>
    /\ UNCHANGED <<exists, obj, headers, delimiter, stored, thrown, optsHeaders,
                   tok, decoded>>

\* csv.sort((a, b) => +a[k] - +b[k], write): the sorted entries are appended
\* by write(), the file is not cleared first
Sort(k, write) ==
    /\ obj = "csv"
    /\ exists
    /\ \E r \in {read(file, delimiter, headers)} :
       \E sorted \in {sort(r.rows, k)} :
           /\ op' = Op("sort", write, [k |-> k, v |-> Null], r.st)
           /\ IF r.st = "ok" /\ write
              THEN /\ file' = file \o rowLines(headers, sorted, delimiter)
                   /\ written' = written \o sorted
                   /\ readResult' = NoRead
              ELSE UNCHANGED <<file, written, readResult>>
    /\ UNCHANGED <<result, json, pending, lineCalls>>
    /\ UNCHANGED <<exists, obj, headers, delimiter, stored, thrown, optsHeaders,
                   tok, decoded>>

\* csv.delete(fn): read, findIndex, splice, clear, write
Delete(pred) ==
    /\ obj = "csv"
    /\ exists
    /\ \E r \in {read(file, delimiter, headers)} :
       \E index \in {findIndex(r.rows, pred)} :
           /\ op' = Op("delete", FALSE, pred, r.st)
           /\ IF r.st = "ok" /\ index # 0
              THEN \E entries \in {splice(r.rows, index - 1)} :
                      /\ file' = <<headerLine(headers, delimiter)>>
                                    \o rowLines(headers, entries, delimiter)
                      /\ written' = entries
                      /\ readResult' = NoRead
              ELSE UNCHANGED <<file, written, readResult>>
    /\ UNCHANGED <<result, json, pending, lineCalls>>
    /\ UNCHANGED <<exists, obj, headers, delimiter, stored, thrown, optsHeaders,
                   tok, decoded>>

\* the loop of deleteAll: indexes holds what the callback returned for each
\* entry, a boolean, and indexes[i] - deleted is 1 - deleted or 0 - deleted
RECURSIVE spliceLoop(_, _, _)
spliceLoop(entries, indexes, i) ==
    IF i > Len(indexes) THEN entries
    ELSE spliceLoop(splice(entries, (IF indexes[i] THEN 1 ELSE 0) - (i - 1)),
                    indexes, i + 1)

\* csv.deleteAll(fn): read, map the callback, the loop, clear, write
DeleteAll(pred) ==
    /\ obj = "csv"
    /\ exists
    /\ \E r \in {read(file, delimiter, headers)} :
       \E indexes \in {[i \in 1..Len(r.rows) |-> Holds(pred, r.rows[i])]} :
           /\ op' = Op("deleteAll", FALSE, pred, r.st)
           /\ IF r.st = "ok" /\ Len(indexes) # 0
              THEN \E entries \in {spliceLoop(r.rows, indexes, 1)} :
                      /\ file' = <<headerLine(headers, delimiter)>>
                                    \o rowLines(headers, entries, delimiter)
                      /\ written' = entries
                      /\ readResult' = NoRead
              ELSE UNCHANGED <<file, written, readResult>>
    /\ UNCHANGED <<result, json, pending, lineCalls>>
    /\ UNCHANGED <<exists, obj, headers, delimiter, stored, thrown, optsHeaders,
                   tok, decoded>>

\* Array.prototype.find: the entry in an array of one, empty for undefined
find(entries, pred) ==
    IF findIndex(entries, pred) = 0 THEN <<>> ELSE <<entries[findIndex(entries, pred)]>>

\* Array.prototype.map with the callback x => x[k]
map(entries, k) == [i \in 1..Len(entries) |-> Get(entries[i], k)]

\* csv.find(fn)
Find(pred) ==
    /\ obj = "csv"
    /\ exists
    /\ \E r \in {read(file, delimiter, headers)} :
           /\ result' = [st |-> r.st, value |-> find(r.rows, pred)]
           /\ op' = Op("find", FALSE, pred, r.st)
    /\ UNCHANGED <<exists, file, obj, headers, delimiter, stored, thrown,
                   optsHeaders, written, readResult, tok, decoded>>
    /\ UNCHANGED <<json, pending, lineCalls>>

\* csv.filter(fn)
Filter(pred) ==
    /\ obj = "csv"
    /\ exists
    /\ \E r \in {read(file, delimiter, headers)} :
           /\ result' = [st |-> r.st, value |-> filter(r.rows, pred)]
           /\ op' = Op("filter", FALSE, pred, r.st)
    /\ UNCHANGED <<exists, file, obj, headers, delimiter, stored, thrown,
                   optsHeaders, written, readResult, tok, decoded>>
    /\ UNCHANGED <<json, pending, lineCalls>>

\* csv.map(x => x[k])
Map(k) ==
    /\ obj = "csv"
    /\ exists
    /\ \E r \in {read(file, delimiter, headers)} :
           /\ result' = [st |-> r.st, value |-> map(r.rows, k)]
           /\ op' = Op("map", FALSE, [k |-> k, v |-> Null], r.st)
    /\ UNCHANGED <<exists, file, obj, headers, delimiter, stored, thrown,
                   optsHeaders, written, readResult, tok, decoded>>
    /\ UNCHANGED <<json, pending, lineCalls>>

\* Object.keys(o)
keys(o) == [i \in 1..Len(o) |-> o[i].k]

\* CSV.fromJson(json, output): data is the array JSON.parse(json) gives, a
\* non-empty array of flat objects; the collection is constructed over the
\* keys of data[0] with the default delimiter and without deletePrevious,
\* then write(data) appends
FromJson(data) ==
    /\ obj = "none"
    /\ optsHeaders' = keys(data[1])
    /\ \E r \in {stripHeaders(keys(data[1]))} :
           IF r.st = "throw"
           THEN /\ obj' = "thrown"
                /\ thrown' = r.err
                /\ op' = Op("fromJson", FALSE, NoPred, "throw")
                /\ UNCHANGED <<exists, file, headers, delimiter, stored, written>>
           ELSE \E i \in {init(r.hs, ",", FALSE, exists, file)} :
                   /\ obj' = "csv"
                   /\ headers' = i.headers
                   /\ delimiter' = ","
                   /\ stored' = <<>>
                   /\ exists' = TRUE
                   /\ file' = i.file \o rowLines(i.headers, data, ",")
                   /\ written' = written \o data
                   /\ op' = Op("fromJson", FALSE, NoPred, "ok")
                   /\ UNCHANGED thrown
    /\ UNCHANGED <<readResult, tok, decoded, result, json, pending, lineCalls>>

\* line.split(/,(?=(?:(?:[^"]*"){2})*[^"]*$)/): a comma splits the line when
\* an even number of double quotes follows it
QuotesAfter(s, i) == Cardinality({j \in (i+1)..Len(s) : s[j] = QUOTE})

RECURSIVE splitCommaFrom(_, _, _)
splitCommaFrom(s, start, i) ==
    IF i > Len(s) THEN <<SubSeq(s, start, Len(s))>>
    ELSE IF s[i] = "," /\ QuotesAfter(s, i) % 2 = 0
    THEN <<SubSeq(s, start, i - 1)>> \o splitCommaFrom(s, i + 1, i + 1)
    ELSE splitCommaFrom(s, start, i + 1)

splitComma(s) == splitCommaFrom(s, 1, 1)

\* the chunks toJson() hands to the writer
JsonOpen == [c |-> "[", o |-> <<>>]

JsonSeparator == [c |-> ",\n", o |-> <<>>]

JsonClose == [c |-> "]", o |-> <<>>]

\* JSON.stringify(obj) of a flat object, as the properties a JSON.parse of
\* the text gives back: a property whose value is undefined is left out
stringify(o) == [c |-> "{}", o |-> SelectSeq(o, LAMBDA q : q.v.t # "undef")]

\* the object toJson() builds for a line: obj[h[i]] = parser.parseValue(data[i])
RECURSIVE jsonObject(_, _, _)
jsonObject(h, data, n) ==
    IF n = 0 THEN <<>>
    ELSE Put(jsonObject(h, data, n - 1), h[n], parseValue(data[n]))

\* what the "data" listener of toJson() writes for the lines k..last of ls,
\* lp being the count it keeps
RECURSIVE toJsonChunks(_, _, _, _, _)
toJsonChunks(h, ls, k, last, lp) ==
    IF k > last THEN <<>>
    ELSE <<stringify(jsonObject(h, splitComma(ls[k]), Len(h)))>>
             \o (IF lp > 1 THEN <<JsonSeparator>> ELSE <<>>)
             \o toJsonChunks(h, ls, k + 1, last, lp - 1)

\* csv.toJson(output): [st, json].  When read() does not settle nothing is
\* written; a line with fewer fields than the first line has makes
\* parser.parseValue(undefined) throw inside the listener, and the output
\* stops there.
toJson(lines, d, hs) ==
    LET r     == read(lines, d, hs)
        ls    == split2(lines)
        h     == IF ls = <<>> THEN <<>> ELSE splitComma(ls[1])
        short == {k \in 2..Len(ls) : Len(splitComma(ls[k])) < Len(h)}
    IN  IF r.st # "ok" THEN [st |-> "throw", json |-> <<>>]
        ELSE IF short # {}
        THEN [st   |-> "throw",
              json |-> <<JsonOpen>>
                          \o toJsonChunks(h, ls, 2,
                                (CHOOSE k \in short : \A m \in short : k <= m) - 1,
                                Len(r.rows))]
        ELSE [st   |-> "ok",
              json |-> <<JsonOpen>> \o toJsonChunks(h, ls, 2, Len(ls), Len(r.rows))
                          \o <<JsonClose>>]

ToJson ==
    /\ obj = "csv"
    /\ exists
    /\ \E t \in {toJson(file, delimiter, headers)} :
           /\ json' = t.json
           /\ op' = Op("toJson", FALSE, NoPred, t.st)
    /\ UNCHANGED <<exists, file, obj, headers, delimiter, stored, thrown,
                   optsHeaders, written, readResult, tok, decoded>>
    /\ UNCHANGED <<result, pending, lineCalls>>

-----------------------------------------------------------------------------
(* The earlier class CSV (src/src/index.ts); obj = "index" is one of its     *)
(* instances.                                                              *)

\* Object.values(entry).join(d): join writes null and undefined as ""
indexRowLine(entry, d) ==
    join([i \in 1..Len(entry) |->
            IF entry[i].v.t \in {"null", "undef"} THEN <<>> ELSE entry[i].v.s], d)

indexRowLines(entries, d) == [i \in 1..Len(entries) |-> indexRowLine(entries[i], d)]

RECURSIVE indexRowObject(_, _, _)
indexRowObject(hs, line, n) ==
    IF n = 0 THEN <<>>
    ELSE Put(indexRowObject(hs, line, n - 1), hs[n],
             IF n <= Len(line) THEN indexReadValue(line[n]) ELSE Undefined)

\* read() of index.ts: every line but the first, split at the delimiter
indexRead(lines, d, hs) ==
    LET ls == split2(lines)
    IN  [st   |-> "ok",
         rows |-> [i \in 1..(Len(ls) - 1) |->
                     indexRowObject(hs, split(ls[i + 1], d), Len(hs))]]

\* new CSV({path, headers, deletePrevious, delimiter}) of index.ts
IndexConstruct(oh, d, deletePrevious) ==
    /\ obj = "none"
    /\ obj' = "index"
    /\ optsHeaders' = oh
    /\ headers' = oh
    /\ delimiter' = d
    /\ stored' = <<>>
    /\ LET ex == exists /\ ~deletePrevious
       IN  file' = IF ~ex \/ file = <<<<>>>> THEN <<join(oh, d)>> ELSE file
    /\ exists' = TRUE
    /\ op' = Op("construct", deletePrevious, NoPred, "ok")
    /\ UNCHANGED <<result, json, pending, lineCalls>>
    /\ UNCHANGED <<thrown, written, readResult, tok, decoded>>

\* write(entries) of index.ts
IndexWrite(arg) ==
    /\ obj = "index"
    /\ file' = file \o indexRowLines(asArray(arg), delimiter)
    /\ written' = written \o asArray(arg)
    /\ readResult' = NoRead
    /\ op' = Op("write", FALSE, NoPred, "ok")
    /\ UNCHANGED <<result, json, pending, lineCalls>>
    /\ UNCHANGED <<exists, obj, headers, delimiter, stored, thrown, optsHeaders,
                   tok, decoded>>

IndexRead ==
    /\ obj = "index"
    /\ readResult' = indexRead(file, delimiter, headers)
    /\ op' = Op("read", FALSE, NoPred, "ok")
    /\ UNCHANGED <<result, json, pending, lineCalls>>
    /\ UNCHANGED <<exists, file, obj, headers, delimiter, stored, thrown,
                   optsHeaders, written, tok, decoded>>

\* clear() of index.ts
IndexClear ==
    /\ obj = "index"
    /\ file' = <<join(headers, delimiter)>>
    /\ written' = <<>>
    /\ readResult' = NoRead
    /\ op' = Op("clear", FALSE, NoPred, "ok")
    /\ UNCHANGED <<result, json, pending, lineCalls>>
    /\ UNCHANGED <<exists, obj, headers, delimiter, stored, thrown, optsHeaders,
                   tok, decoded>>

\* clearSync() of index.ts
ClearSync ==
    /\ obj = "index"
    /\ file' = <<join(headers, delimiter)>>
    /\ written' = <<>>
    /\ readResult' = NoRead
    /\ op' = Op("clearSync", FALSE, NoPred, "ok")
    /\ UNCHANGED <<result, json, pending, lineCalls>>
    /\ UNCHANGED <<exists, obj, headers, delimiter, stored, thrown, optsHeaders,
                   tok, decoded>>

\* store(entries) of index.ts
IndexStore(arg) ==
    /\ obj = "index"
    /\ stored' = stored \o asArray(arg)
    /\ op' = Op("store", FALSE, NoPred, "ok")
    /\ UNCHANGED <<result, json, pending, lineCalls>>
    /\ UNCHANGED <<exists, file, obj, headers, delimiter, thrown, optsHeaders,
                   written, readResult, tok, decoded>>

\* bulkWrite() of index.ts: return this.write(this.stored)
BulkWrite ==
    /\ obj = "index"
    /\ file' = file \o indexRowLines(stored, delimiter)
    /\ written' = written \o stored
    /\ readResult' = NoRead
    /\ op' = Op("bulkWrite", FALSE, NoPred, "ok")
    /\ UNCHANGED <<result, json, pending, lineCalls>>
    /\ UNCHANGED <<exists, obj, headers, delimiter, stored, thrown, optsHeaders,
                   tok, decoded>>

\* sort(fn, write) of index.ts: with write, clear() and then write(entries)
IndexSort(k, write) ==
    /\ obj = "index"
    /\ \E sorted \in {sort(indexRead(file, delimiter, headers).rows, k)} :
           IF write
           THEN /\ file' = <<join(headers, delimiter)>> \o indexRowLines(sorted, delimiter)
                /\ written' = sorted
                /\ readResult' = NoRead
           ELSE UNCHANGED <<file, written, readResult>>
    /\ op' = Op("sort", write, [k |-> k, v |-> Null], "ok")
    /\ UNCHANGED <<result, json, pending, lineCalls>>
    /\ UNCHANGED <<exists, obj, headers, delimiter, stored, thrown, optsHeaders,
                   tok, decoded>>

\* delete(fn) of index.ts: find, indexOf, splice, clear, write
IndexDelete(pred) ==
    /\ obj = "index"
    /\ \E data \in {indexRead(file, delimiter, headers).rows} :
       \E index \in {findIndex(data, pred)} :
           IF index # 0
           THEN \E rest \in {splice(data, index - 1)} :
                   /\ file' = <<join(headers, delimiter)>> \o indexRowLines(rest, delimiter)
                   /\ written' = rest
                   /\ readResult' = NoRead
           ELSE UNCHANGED <<file, written, readResult>>
    /\ op' = Op("delete", FALSE, pred, "ok")
    /\ UNCHANGED <<result, json, pending, lineCalls>>
    /\ UNCHANGED <<exists, obj, headers, delimiter, stored, thrown, optsHeaders,
                   tok, decoded>>

\* deleteAll(fn) of index.ts: each entry filter() kept is looked up by
\* identity (indexOf) and spliced out, so the others remain
IndexDeleteAll(pred) ==
    /\ obj = "index"
    /\ \E data \in {indexRead(file, delimiter, headers).rows} :
           IF Len(filter(data, pred)) # 0
           THEN \E rest \in {SelectSeq(data, LAMBDA x : ~Holds(pred, x))} :
                   /\ file' = <<join(headers, delimiter)>> \o indexRowLines(rest, delimiter)
                   /\ written' = rest
                   /\ readResult' = NoRead
           ELSE UNCHANGED <<file, written, readResult>>
    /\ op' = Op("deleteAll", FALSE, pred, "ok")
    /\ UNCHANGED <<result, json, pending, lineCalls>>
    /\ UNCHANGED <<exists, obj, headers, delimiter, stored, thrown, optsHeaders,
                   tok, decoded>>

\* CSV.fromJson(json, output) of index.ts
IndexFromJson(data) ==
    /\ obj = "none"
    /\ obj' = "index"
    /\ optsHeaders' = keys(data[1])
    /\ headers' = keys(data[1])
    /\ delimiter' = ","
    /\ stored' = <<>>
    /\ file' = (IF ~exists \/ file = <<<<>>>> THEN <<join(keys(data[1]), ",")>> ELSE file)
                   \o indexRowLines(data, ",")
    /\ exists' = TRUE
    /\ written' = written \o data
    /\ op' = Op("fromJson", FALSE, NoPred, "ok")
    /\ UNCHANGED <<thrown, readResult, tok, decoded, result, json, pending, lineCalls>>

-----------------------------------------------------------------------------
(* Inputs *)

\* the longest header list of the schema specification
MaxHeaders == 2

\* the most record lines the codec specification lets the file hold
CodecMaxRows == 1

\* the longest generated token of the value specification
MaxTokLen == 3

Delimiters == {",", ";"}

RECURSIVE SeqsUpTo(_, _)
SeqsUpTo(S, n) ==
    IF n = 0 THEN {<<>>}
    ELSE LET shorter == SeqsUpTo(S, n - 1)
         IN  shorter \cup {Append(q, x) : q \in {r \in shorter : Len(r) = n - 1}, x \in S}

Names == {<<"a">>, <<"n">>, <<"a","g","e">>, <<"i","s","A","l","i","v","e">>}

Prefixes == {<<>>, <<"s",":">>, <<"n",":">>, <<"b",":">>}

Suffixes == {<<>>, <<"?">>}

\* header tokens of the form [s:|n:|b:]name[?], each with the name it declares
TypedTokens ==
    {[tok |-> p \o n \o q, name |-> n] : p \in Prefixes, n \in Names, q \in Suffixes}

\* header tokens that are not of that form
OddTokens ==
    {<<"n","a"," ","m","e">>, <<" ","a">>, <<"a"," ">>, <<" ","n",":","a">>,
     <<"a","?"," ">>, <<"a","-","b">>, <<"a","?","?">>, <<"N",":","a">>,
     <<>>, <<"?">>, <<"n",":">>, <<"n",":","?">>}

HeaderTokens ==
    {w.tok : w \in {x \in TypedTokens : x.name = <<"a">>}}
        \cup {<<"n">>, <<"s",":","n">>, <<"a","g","e">>, <<"n",":","a","g","e","?">>}
        \cup OddTokens

HeaderLists ==
    (SeqsUpTo(HeaderTokens, MaxHeaders)
        \cup {<<<<"n",":","a","g","e","?">>, <<"i","s","A","l","i","v","e">>>>})

\* the contents a file may have before the collection is constructed
OldFiles ==
    {<<<<>>>>,
     <<<<"a",",","b">>>>,
     <<<<"a",",","b">>, <<"1",",","2">>>>}

InitCommon ==
    /\ obj = "none"
    /\ headers = <<>>
    /\ delimiter = ","
    /\ stored = <<>>
    /\ thrown = NoError
    /\ optsHeaders = <<>>
    /\ written = <<>>
    /\ readResult = NoRead
    /\ decoded = NoDecode
    /\ op = NoOp
    /\ result = NoResult
    /\ json = <<>>
    /\ pending = NoFlush
    /\ lineCalls = NoCalls

InitFile(files) ==
    \/ exists = FALSE /\ file = <<<<>>>>
    \/ exists = TRUE /\ file \in files

-----------------------------------------------------------------------------
(* Specification of the header schema: construction over any header list *)

InitSchema == InitCommon /\ InitFile(OldFiles) /\ tok = <<>>

NextSchema ==
    \/ \E oh \in HeaderLists, d \in Delimiters, del \in BOOLEAN : Construct(oh, d, del)
    \/ Read
    \/ Clear

SpecSchema == InitSchema /\ [][NextSchema]_vars

-----------------------------------------------------------------------------
(* Specification of the value codec: both decoders over text tokens *)

TokenChars == {"1", "0", " ", "a", "-"}

Tokens ==
    SeqsUpTo(TokenChars, MaxTokLen)
        \cup {NullText, <<"N","U","L","L">>, <<"N","u","l","l"," ">>,
              TrueText, FalseText, <<"T","R","U","E">>, <<" ","F","a","l","s","e">>,
              <<"J","a","n","e">>, <<"1","9">>, <<"t","r","u","e","1">>}

InitValue == InitCommon /\ exists = FALSE /\ file = <<<<>>>> /\ tok \in Tokens

NextValue == DecodeParseValue \/ DecodeIndexRead

SpecValue == InitValue /\ [][NextValue]_vars

-----------------------------------------------------------------------------
(* Specification of the row codec: write and read of single records *)

Text_a == <<"a">>

Text_b == <<"b">>

Text_id == <<"i","d">>

Text_name == <<"n","a","m","e">>

Text_age == <<"a","g","e">>

Text_Jane == <<"J","a","n","e">>

\* the header lists the codec specification constructs with
CodecHeaderLists ==
    {<<Text_a>>,
     <<Text_a, <<"n",":","b","?">>>>,
     <<Text_id, Text_name, Text_age>>}

\* string values without embedded double quotes
ProbeStrings ==
    {Text_a, Text_Jane, <<"a"," ","b">>, <<"a",",","b">>, <<"a",";","b">>,
     <<"A",",","b">>, <<"1","2">>, TrueText, NullText}

ProbeValues ==
    {Null, Bool(TRUE), Bool(FALSE), Num(<<"1">>), Num(<<"1","9">>), Num(<<"-","1">>)}
        \cup {Str(t) : t \in ProbeStrings}

\* the entries a caller passes for a schema: every value in one field, the
\* other fields plain; the optional field b given, null or left out; the
\* empty string in the schema of one field
EntriesFor(hs) ==
    IF hs = <<Text_a>>
    THEN {<<[k |-> Text_a, v |-> x]>> : x \in ProbeValues \cup {Str(<<>>)}}
    ELSE IF hs = <<Text_a, Text_b>>
    THEN {<<[k |-> Text_a, v |-> x], [k |-> Text_b, v |-> y]>> :
              x \in ProbeValues, y \in {Num(<<"1","9">>), Null}}
         \cup {<<[k |-> Text_a, v |-> x]>> : x \in ProbeValues}
    ELSE IF hs = <<Text_id, Text_name, Text_age>>
    THEN {<<[k |-> Text_id, v |-> Num(<<"1">>)], [k |-> Text_name, v |-> Str(t)],
            [k |-> Text_age, v |-> Num(<<"1","9">>)]>> : t \in ProbeStrings}
    ELSE {}

WriteArgs(hs) ==
    {[isArray |-> FALSE, one |-> e, many |-> <<>>] : e \in EntriesFor(hs)}
        \cup {[isArray |-> TRUE, one |-> <<>>, many |-> <<e>>] : e \in EntriesFor(hs)}

InitCodec == InitCommon /\ InitFile(OldFiles) /\ tok = <<>>

NextCodec ==
    \/ \E oh \in CodecHeaderLists, d \in Delimiters, del \in BOOLEAN : Construct(oh, d, del)
    \/ \E arg \in WriteArgs(headers) :
          RecordLines + Len(asArray(arg)) <= CodecMaxRows /\ Write(arg)
    \/ Read
    \/ Clear

SpecCodec == InitCodec /\ [][NextCodec]_vars

-----------------------------------------------------------------------------
(* Specification of the collection operations: both classes over the       *)
(* schema [name, age], on a file the constructor creates                   *)

\* the most entries the operations specification lets the file and the
\* store buffer hold together
OpsMaxRows == 2

Text_john == <<"j","o","h","n">>

OpsHeaders == <<Text_name, Text_age>>

\* the same schema as the header list ["name", "n:age?"]
OpsTypedHeaders == <<Text_name, <<"n",":","a","g","e","?">>>>

Person(n, a) == <<[k |-> Text_name, v |-> Str(n)], [k |-> Text_age, v |-> Num(a)]>>

OpsEntries ==
    {Person(Text_Jane, <<"1","9">>), Person(Text_john, <<"2","1">>),
     Person(Text_john, <<"1","9">>)}

\* write and store are called with one entry, or with an array of one or
\* of two entries
OpsArrays ==
    {<<e>> : e \in OpsEntries}
        \cup {<<Person(Text_john, <<"2","1">>), Person(Text_Jane, <<"1","9">>)>>,
              <<Person(Text_Jane, <<"1","9">>), Person(Text_john, <<"1","9">>)>>}

OpsArgs ==
    {[isArray |-> FALSE, one |-> e, many |-> <<>>] : e \in OpsEntries}
        \cup {[isArray |-> TRUE, one |-> <<>>, many |-> q] : q \in OpsArrays}

\* x => x.age === 19 and x => x.name === "john"
OpsPreds ==
    {[k |-> Text_age, v |-> Num(<<"1","9">>)], [k |-> Text_name, v |-> Str(Text_john)]}

InitOps == InitCommon /\ exists = FALSE /\ file = <<<<>>>> /\ tok = <<>>

NextOps ==
    \/ \E d \in Delimiters, del \in BOOLEAN : Construct(OpsTypedHeaders, d, del)
    \/ \E arg \in OpsArgs : RecordLines + Len(asArray(arg)) <= OpsMaxRows /\ Write(arg)
    \/ Clear
    \/ \E arg \in OpsArgs :
          RecordLines + Len(stored) + Len(asArray(arg)) <= OpsMaxRows /\ Store(arg)
    \/ RecordLines + Len(stored) <= OpsMaxRows /\ Flush
    \/ \E write \in BOOLEAN :
          (write => 2 * RecordLines <= OpsMaxRows) /\ Sort(Text_age, write)
    \/ \E pred \in OpsPreds : Delete(pred)
    \/ \E pred \in OpsPreds : DeleteAll(pred)
    \/ \E d \in Delimiters, del \in BOOLEAN : IndexConstruct(OpsHeaders, d, del)
    \/ \E arg \in OpsArgs : RecordLines + Len(asArray(arg)) <= OpsMaxRows /\ IndexWrite(arg)
    \/ IndexClear
    \/ ClearSync
    \/ \E arg \in OpsArgs :
          RecordLines + Len(stored) + Len(asArray(arg)) <= OpsMaxRows /\ IndexStore(arg)
    \/ RecordLines + Len(stored) <= OpsMaxRows /\ BulkWrite
    \/ \E write \in BOOLEAN : IndexSort(Text_age, write)
    \/ \E pred \in OpsPreds : IndexDelete(pred)
    \/ \E pred \in OpsPreds : IndexDeleteAll(pred)

SpecOps == InitOps /\ [][NextOps]_vars

-----------------------------------------------------------------------------
(* Specification of record writing: both classes over the schema           *)
(* [name, age], with entries whose keys come in either order and entries   *)
(* that hold an empty or blank string                                      *)

\* the most record lines the record specification lets the file hold
RecordsMaxRows == 2

Text_nancy == <<"n","a","n","c","y">>

Text_Nancy == <<"N","a","n","c","y">>

Text_35 == <<"3","5">>

\* {age: a, name: n}: the keys in the order opposite to the schema's
Swapped(n, a) == <<[k |-> Text_age, v |-> a], [k |-> Text_name, v |-> n]>>

\* {name: n, age: a}
Ordered(n, a) == <<[k |-> Text_name, v |-> n], [k |-> Text_age, v |-> a]>>

RecordsEntries ==
    {Ordered(Str(Text_Nancy), Num(Text_35)), Swapped(Str(Text_Nancy), Num(Text_35)),
     Ordered(Str(Text_nancy), Num(Text_35)), Swapped(Str(Text_nancy), Num(Text_35)),
     Ordered(Str(<<>>), Num(Text_35)), Swapped(Str(<<>>), Num(Text_35)),
     Ordered(Str(<<" ">>), Num(Text_35)), Ordered(Str(Text_nancy), Str(<<>>))}

RecordsArgs ==
    {[isArray |-> FALSE, one |-> e, many |-> <<>>] : e \in RecordsEntries}
        \cup {[isArray |-> TRUE, one |-> <<>>, many |-> <<e>>] : e \in RecordsEntries}

InitRecords == InitCommon /\ exists = FALSE /\ file = <<<<>>>> /\ tok = <<>>

NextRecords ==
    \/ \E d \in Delimiters : Construct(OpsHeaders, d, FALSE)
    \/ \E arg \in RecordsArgs :
          RecordLines + Len(asArray(arg)) <= RecordsMaxRows /\ Write(arg)
    \/ Clear
    \/ \E d \in Delimiters : IndexConstruct(OpsHeaders, d, FALSE)
    \/ \E arg \in RecordsArgs :
          RecordLines + Len(asArray(arg)) <= RecordsMaxRows /\ IndexWrite(arg)
    \/ IndexClear

SpecRecords == InitRecords /\ [][NextRecords]_vars

-----------------------------------------------------------------------------
(* Specification of the store buffer: store() calls interleaved with a     *)
(* flush() that is suspended at its await                                  *)

\* the most entries the buffer specification lets file and buffer hold
FlushMaxRows == 2

FlushArgs == {[isArray |-> FALSE, one |-> e, many |-> <<>>] : e \in OpsEntries}

InitFlush == InitCommon /\ exists = FALSE /\ file = <<<<>>>> /\ tok = <<>>

NextFlush ==
    \/ \E d \in Delimiters : Construct(OpsTypedHeaders, d, FALSE)
    \/ \E arg \in FlushArgs :
          RecordLines + Len(stored) + Len(asArray(arg)) <= FlushMaxRows /\ Store(arg)
    \/ FlushBegin
    \/ FlushEnd
    \/ ~pending.active /\ Clear

SpecFlush == InitFlush /\ [][NextFlush]_vars

-----------------------------------------------------------------------------
(* Specification of the queries: read, find, filter, map, sort without     *)
(* rewrite and toJson of src/src/csv.ts on files of a few records, with    *)
(* entries waiting in the store buffer                                     *)

\* the most entries the query specification lets file and buffer hold
QueryMaxRows == 2

Text_a_comma_b == <<"a",",","b">>

QueryEntries ==
    {Person(Text_Jane, <<"1","9">>), Person(Text_john, <<"2","1">>),
     Person(Text_a_comma_b, <<"1","9">>)}

QueryArgs == {[isArray |-> FALSE, one |-> e, many |-> <<>>] : e \in QueryEntries}

InitQuery == InitCommon /\ exists = FALSE /\ file = <<<<>>>> /\ tok = <<>>

NextQuery ==
    \/ \E d \in Delimiters : Construct(OpsTypedHeaders, d, FALSE)
    \/ \E arg \in QueryArgs :
          RecordLines + Len(stored) + Len(asArray(arg)) <= QueryMaxRows /\ Write(arg)
    \/ \E arg \in QueryArgs :
          RecordLines + Len(stored) + Len(asArray(arg)) <= QueryMaxRows /\ Store(arg)
    \/ Read
    \/ \E pred \in OpsPreds : Find(pred)
    \/ \E pred \in OpsPreds : Filter(pred)
    \/ Map(Text_name)
    \/ Sort(Text_age, FALSE)
    \/ ToJson

SpecQuery == InitQuery /\ [][NextQuery]_vars

-----------------------------------------------------------------------------
(* Specification of the JSON export and import: toJson of src/src/csv.ts   *)
(* and fromJson of both classes, the output of fromJson absent or present  *)

\* the most record lines the JSON specification lets the file hold
JsonMaxRows == 2

\* the arrays JSON.parse gives fromJson
JsonArrays ==
    {<<Person(Text_Jane, <<"1","9">>)>>,
     <<Person(Text_john, <<"2","1">>), Person(Text_Jane, <<"1","9">>)>>,
     <<Ordered(Str(Text_nancy), Num(Text_35)), Swapped(Str(Text_john), Num(<<"2","1">>))>>,
     <<Person(Text_a_comma_b, <<"1","9">>)>>}

\* the content of the output file of fromJson before the call
JsonOldFiles == {<<<<"n","a","m","e",",","a","g","e">>, <<"j","o","h","n",",","2","1">>>>}

InitJson == InitCommon /\ InitFile(JsonOldFiles) /\ tok = <<>>

NextJson ==
    \/ \E d \in Delimiters : Construct(OpsTypedHeaders, d, FALSE)
    \/ \E arg \in QueryArgs : RecordLines + Len(asArray(arg)) <= JsonMaxRows /\ Write(arg)
    \/ ToJson
    \/ \E data \in JsonArrays : FromJson(data)
    \/ \E data \in JsonArrays : IndexFromJson(data)

SpecJson == InitJson /\ [][NextJson]_vars

-----------------------------------------------------------------------------
(* Specification of the line reader: readLinesSync over files of a few     *)
(* lines, with and without a line break after the last line                *)

\* the most lines (line breaks plus one) of a file of the line specification
LinesMaxLines == 3

\* the largest limit readLinesSync is called with
LinesMaxLimit == 2

LineTexts == {<<>>, <<"a">>, <<"a",",","b">>}

LineFiles == SeqsUpTo(LineTexts, LinesMaxLines) \ {<<>>}

InitLines == InitCommon /\ exists = TRUE /\ file \in LineFiles /\ tok = <<>>

NextLines == \E limit \in 0..LinesMaxLimit : ReadLinesSync(limit)

SpecLines == InitLines /\ [][NextLines]_vars

-----------------------------------------------------------------------------
(* Reference definitions of the specification, used to state the claims *)

\* Value-decode as specified: trim; empty or null -> null; true/false ->
\* boolean; numeric as a whole -> number; otherwise the trimmed text itself
SpecDecode(t) ==
    LET w  == trim(t)
        lw == toLowerCase(w)
    IN  IF lw = <<>> \/ lw = NullText THEN Null
        ELSE IF lw = TrueText \/ lw = FalseText THEN Bool(lw = TrueText)
        ELSE IF IsDecimalLiteral(w) THEN Num(plusText(w))
        ELSE Str(w)

\* Value-encode as specified, under the active delimiter d
SpecEncode(v, d) ==
    IF v.t \in {"null", "undef"} THEN NullText
    ELSE IF v.t = "str" /\ includes(v.s, d) THEN <<QUOTE>> \o v.s \o <<QUOTE>>
    ELSE v.s

\* Split as specified: a delimiter inside an odd number of double quotes
\* since the field start is content
RECURSIVE SpecSplitFrom(_, _, _, _, _)
SpecSplitFrom(s, d, i, cur, inQuote) ==
    IF i > Len(s) THEN <<cur>>
    ELSE IF s[i] = d /\ ~inQuote
    THEN <<cur>> \o SpecSplitFrom(s, d, i + 1, <<>>, FALSE)
    ELSE SpecSplitFrom(s, d, i + 1, Append(cur, s[i]),
                       IF s[i] = QUOTE THEN ~inQuote ELSE inQuote)

SpecSplit(s, d) == SpecSplitFrom(s, d, 1, <<>>, FALSE)

\* the record lines read() is given, and the line of the i-th written entry
RecordLinesOf(f) == IF split2(f) = <<>> THEN <<>> ELSE Tail(split2(f))

WrittenLine(i) == file[Len(file) - Len(written) + i]

\* the row read() returned for the i-th written entry
WrittenRow(i) == readResult.rows[Len(readResult.rows) - Len(written) + i]

HeaderSet == {headers[j] : j \in 1..Len(headers)}

KeysOf(row) == {row[j].k : j \in 1..Len(row)}

\* a record over the schema with string (no double quote), integer, boolean
\* or null values
Conforming(e) ==
    /\ KeysOf(e) = HeaderSet
    /\ \A j \in 1..Len(e) :
          /\ e[j].v.t \in {"str", "num", "bool", "null"}
          /\ ~includes(e[j].v.s, QUOTE)

ReadDone == obj = "csv" /\ readResult.st # "none"

-----------------------------------------------------------------------------
(* Claims about the row codec, under SpecCodec *)

\* C1: Round-trip. Every record over the schema with string, integer, boolean
\* or null values that was written is read back equal: same field names, same
\* values, same types, strings unchanged.
C1_RoundTrip ==
    (ReadDone /\ written # <<>> /\ \A i \in 1..Len(written) : Conforming(written[i]))
        => /\ readResult.st = "ok"
           /\ Len(readResult.rows) >= Len(written)
           /\ \A i \in 1..Len(written) :
                 /\ KeysOf(WrittenRow(i)) = HeaderSet
                 /\ \A h \in HeaderSet : Get(WrittenRow(i), h) = Get(written[i], h)

\* C2: Quote-on-write uses the active delimiter. The line write() appends for
\* an entry is the tokens joined by the collection's delimiter, a string that
\* contains that delimiter in one pair of double quotes, any other as it is.
C2_QuoteOnWriteActiveDelimiter ==
    (obj = "csv" /\ written # <<>>)
        => \A i \in 1..Len(written) :
              WrittenLine(i) =
                  join([j \in 1..Len(headers) |->
                          SpecEncode(Get(written[i], headers[j]), delimiter)], delimiter)

\* C3: Quote-aware split. Row-decode finds exactly one token per schema field
\* in every line row-encode produced, and read() returns a string that holds
\* the delimiter as it was written, without the quotes.
C3_QuoteAwareSplit ==
    (ReadDone /\ written # <<>> /\ \A i \in 1..Len(written) : Conforming(written[i]))
        => /\ \A i \in 1..Len(written) : Len(match(WrittenLine(i))) = Len(headers)
           /\ readResult.st = "ok"
           /\ \A i \in 1..Len(written) : \A h \in HeaderSet :
                 (Get(written[i], h).t = "str" /\ includes(Get(written[i], h).s, delimiter))
                     => Get(WrittenRow(i), h) = Get(written[i], h)

\* C4: Positional decode. A line t1,...,tn under the delimiter "," and a
\* schema of n fields decodes to the record whose i-th field is
\* Value-decode(ti); 1,Jane,19 gives id = 1, name = "Jane", age = 19.
C4_PositionalDecode ==
    (ReadDone /\ delimiter = "," /\ Len(headers) > 0)
        => \A i \in 1..Len(RecordLinesOf(file)) :
              LET line == RecordLinesOf(file)[i]
                  ts   == split(line, ",")
              IN  (~includes(line, QUOTE) /\ Len(ts) = Len(headers))
                      => /\ readResult.st = "ok"
                         /\ \A j \in 1..Len(headers) :
                               Get(readResult.rows[i], headers[j]) = SpecDecode(ts[j])

\* C6: Null encoding. For an entry that leaves out the optional field or
\* holds null for it, the written line has the text null in that field's
\* column and every other field in its own column, and read() returns null
\* for the field.
C6_NullEncoding ==
    (ReadDone /\ written # <<>>)
        => \A i \in 1..Len(written) : \A j \in 1..Len(headers) :
              Get(written[i], headers[j]).t \in {"null", "undef"}
                  => /\ Len(SpecSplit(WrittenLine(i), delimiter)) = Len(headers)
                     /\ SpecSplit(WrittenLine(i), delimiter)[j] = NullText
                     /\ readResult.st = "ok"
                     /\ Get(WrittenRow(i), headers[j]) = Null

\* C7: Row-decode tolerates any token count. read() raises no error and
\* returns one record per record line; a field beyond the tokens of its line
\* is null and tokens beyond the schema are ignored.
C7_TokenCountTolerated ==
    (ReadDone /\ Len(headers) > 0)
        => /\ readResult.st = "ok"
           /\ Len(readResult.rows) = Len(RecordLinesOf(file))
           /\ \A i \in 1..Len(RecordLinesOf(file)) :
                 /\ KeysOf(readResult.rows[i]) = HeaderSet
                 /\ \A j \in 1..Len(headers) :
                       j > Len(SpecSplit(RecordLinesOf(file)[i], delimiter))
                           => Get(readResult.rows[i], headers[j]) = Null

-----------------------------------------------------------------------------
(* Claim about the value codec, under SpecValue *)

\* C5: Value-decode priority. After trimming: empty or null (any case) is
\* null; otherwise true/false (any case) is a boolean; otherwise a token
\* numeric as a whole is that number; otherwise a string.  An empty field is
\* never the number 0 and the text null never a string.
C5_DecodePriority ==
    decoded.by # "none"
        => LET lw == toLowerCase(trim(tok))
           IN  IF lw = <<>> \/ lw = NullText THEN decoded.v = Null
               ELSE IF lw = TrueText \/ lw = FalseText
               THEN decoded.v = Bool(lw = TrueText)
               ELSE IF IsDecimalLiteral(trim(tok))
               THEN decoded.v = Num(plusText(tok))
               ELSE decoded.v.t = "str"

-----------------------------------------------------------------------------
(* Claims about the header schema, under SpecSchema *)

IsTyped(t) == \E w \in TypedTokens : w.tok = t

NameOf(t) == (CHOOSE w \in TypedTokens : w.tok = t).name

Constructed == obj # "none"

\* C8: Schema stripping. For a header list of tokens [s:|n:|b:]name[?] the
\* schema holds exactly the names, as many as the tokens and in their order.
C8_SchemaStripping ==
    (Constructed /\ optsHeaders # <<>> /\ \A i \in 1..Len(optsHeaders) : IsTyped(optsHeaders[i]))
        => /\ obj = "csv"
           /\ Len(headers) = Len(optsHeaders)
           /\ \A i \in 1..Len(optsHeaders) : headers[i] = NameOf(optsHeaders[i])

\* "n:age?" gives age and "isAlive" gives isAlive
C8_Witness ==
    /\ obj = "csv"
    /\ optsHeaders = <<<<"n",":","a","g","e","?">>, <<"i","s","A","l","i","v","e">>>>
    /\ headers = <<<<"a","g","e">>, <<"i","s","A","l","i","v","e">>>>

HasBadChar(n) == \E k \in 1..Len(n) : n[k] \notin (Digits \cup Letters)

FirstBadChar(n) ==
    n[CHOOSE k \in 1..Len(n) :
         n[k] \notin (Digits \cup Letters)
             /\ \A m \in 1..(k-1) : n[m] \in (Digits \cup Letters)]

\* the first name of the list with a character that is not alphanumeric
FirstBadName(ns) ==
    ns[CHOOSE i \in 1..Len(ns) :
          HasBadChar(ns[i]) /\ \A j \in 1..(i-1) : ~HasBadChar(ns[j])]

ConstructionStep == obj = "none" /\ obj' # "none"

\* the names after removal of prefix and suffix
RawNames(oh) == [i \in 1..Len(oh) |-> replaceTyping(oh[i])]

\* ... and of the white space around them
TrimmedNames(oh) == [i \in 1..Len(oh) |-> trim(replaceTyping(oh[i]))]

\* a construction over names ns that must throw: it throws, the error names
\* the first bad character, the file is neither created nor modified
ThrowsOn(ns) ==
    (\E i \in 1..Len(ns) : HasBadChar(ns[i]))
        => /\ obj' = "thrown"
           /\ thrown'.ch = FirstBadChar(FirstBadName(ns))
           /\ exists' = exists
           /\ file' = file

\* C9 as claimed: a name with a character outside A-Z, a-z, 0-9 anywhere in
\* it after prefix and suffix removal, a leading or trailing space included,
\* makes the constructor throw, naming the first such character, and leaves
\* the file alone.
C9_InvalidHeaderThrows == [][ConstructionStep => ThrowsOn(RawNames(optsHeaders'))]_vars

\* C9 as amended: the same for a name that holds such a character after
\* prefix and suffix removal and after trimming the white space around it.
C9_InvalidTrimmedHeaderThrows ==
    [][ConstructionStep => ThrowsOn(TrimmedNames(optsHeaders'))]_vars

\* "na me" throws on " " and no file is created
C9_Witness ==
    /\ obj = "thrown"
    /\ optsHeaders = <<<<"n","a"," ","m","e">>>>
    /\ thrown.ch = " "
    /\ ~exists

\* C10: a header list that holds "", "?", "n:" or "n:?" makes the constructor
\* throw.
C10_EmptyNameRejected ==
    (Constructed /\ \E i \in 1..Len(optsHeaders) :
         optsHeaders[i] \in {<<>>, <<"?">>, <<"n",":">>, <<"n",":","?">>})
        => obj = "thrown"

\* C11: Schema field names are unique. After a successful construction the
\* (non-empty) names of the schema are pairwise distinct, also when two tokens
\* of the header list strip to the same name.
C11_FieldNamesUnique ==
    (obj = "csv" /\ \A i \in 1..Len(headers) : headers[i] # <<>>)
        => \A i \in 1..Len(headers) : \A j \in 1..Len(headers) :
              i # j => headers[i] # headers[j]

\* C19: Header inference. Constructing with an empty header list on an
\* existing file (not deleted first) whose first line is not empty sets the
\* schema to the delimiter-separated tokens of that line, also when the file
\* is the header line alone; read() then returns records keyed by them.
C19_HeaderInference ==
    [][(ConstructionStep /\ obj' = "csv" /\ optsHeaders' = <<>>
            /\ exists /\ ~op'.flag /\ file[1] # <<>>)
          => /\ headers' = split(file[1], delimiter')
             /\ LET r == read(file', delimiter', headers')
                IN  r.st = "ok"
                      => \A i \in 1..Len(r.rows) :
                            KeysOf(r.rows[i]) = {headers'[j] : j \in 1..Len(headers')}]_vars

\* C20: File state after construction with a non-empty header list. If the
\* file was absent, was empty or deletePrevious is true, the file holds
\* exactly the schema's names joined by the delimiter; if it existed with
\* content and deletePrevious is false, construction leaves it unchanged.
C20_FileAfterConstruction ==
    [][(ConstructionStep /\ obj' = "csv" /\ optsHeaders' # <<>>)
          => /\ exists'
             /\ IF ~exists \/ file = <<<<>>>> \/ op'.flag
                THEN file' = <<join(headers', delimiter')>>
                ELSE file' = file]_vars

-----------------------------------------------------------------------------
(* Claim about read(), under SpecCodec *)

\* C14: The header line is never a record. In every file state a read()
\* that returns has exactly one record per line after the first line, the
\* i-th record from line i + 1, and the empty list on a header-only file.
C14_HeaderNeverARecord ==
    (ReadDone /\ readResult.st = "ok")
        => /\ Len(readResult.rows) = Len(file) - 1
           /\ \A i \in 1..Len(readResult.rows) :
                 readResult.rows[i] = parseRow(file[i + 1], delimiter, headers).row

-----------------------------------------------------------------------------
(* Claims about the collection operations, under SpecOps *)

\* what read() of the instance's class returns on the file content f
ReadAll(f) ==
    IF obj = "index" THEN indexRead(f, delimiter, headers) ELSE read(f, delimiter, headers)

\* the entries the step hands to write()
Appended == SubSeq(written', Len(written) + 1, Len(written'))

\* the same records: equal field by field over the schema
SameRecord(a, b) ==
    /\ KeysOf(a) = HeaderSet
    /\ \A h \in HeaderSet : Get(a, h) = Get(b, h)

SameRecords(as, bs) ==
    Len(as) = Len(bs) /\ \A i \in 1..Len(as) : SameRecord(as[i], bs[i])

CountOf(rs, x) == Cardinality({i \in 1..Len(rs) : rs[i] = x})

\* the records of rs, each as often as in qs
IsPermutation(rs, qs) ==
    /\ Len(rs) = Len(qs)
    /\ \A i \in 1..Len(qs) : CountOf(rs, qs[i]) = CountOf(qs, qs[i])

\* C12: Sort with rewrite. After sort(cmp, true) resolves on a file holding
\* the records R, read() returns the records of R, each once, ordered by cmp.
C12_SortRewrite ==
    [][(op'.name = "sort" /\ op'.flag /\ op'.st = "ok" /\ ReadAll(file).st = "ok")
          => LET R  == ReadAll(file).rows
                 R2 == ReadAll(file')
             IN  /\ R2.st = "ok"
                 /\ IsPermutation(R2.rows, R)
                 /\ \A i \in 1..Len(R2.rows) : \A j \in i..Len(R2.rows) :
                       compareFn(op'.pred.k, R2.rows[i], R2.rows[j]) <= 0]_vars

\* C13: Append. After write(E), read() returns the records the file held
\* before, unchanged and in order, followed by the entries of E in array
\* order; the file has one line more per entry.
C13_Append ==
    [][(op'.name = "write" /\ ReadAll(file).st = "ok")
          => /\ Len(file') = Len(file) + Len(Appended)
             /\ ReadAll(file').st = "ok"
             /\ SameRecords(ReadAll(file').rows, ReadAll(file).rows \o Appended)]_vars

\* C15: Clear. After clear() or clearSync() the file is exactly the schema's
\* names joined by the delimiter, on one line with no line break, and read()
\* returns the empty list.
C15_Clear ==
    op.name \in {"clear", "clearSync"}
        => /\ file = <<join(headers, delimiter)>>
           /\ ReadAll(file) = [st |-> "ok", rows |-> <<>>]

\* clear() on a file of two records under the delimiter ";"
C15_Witness ==
    /\ op.name = "clear"
    /\ op.rows = 2
    /\ obj = "csv"
    /\ delimiter = ";"
    /\ file = <<<<"n","a","m","e",";","a","g","e">>>>

C17_DeleteAllLeavesNoMatch ==
    [][(op'.name = "deleteAll" /\ op'.st = "ok" /\ ReadAll(file).st = "ok")
          => /\ ReadAll(file').st = "ok"
             /\ \A i \in 1..Len(ReadAll(file').rows) :
                   ~Holds(op'.pred, ReadAll(file').rows[i])]_vars

\* C18: Store and flush. After flush() (bulkWrite() in the earlier class)
\* every stored entry has been appended to the file once, in store order,
\* and the store buffer is empty.
C18_FlushEmptiesStore ==
    [][(op'.name \in {"flush", "bulkWrite"})
          => /\ Appended = stored
             /\ Len(file') = Len(file) + Len(stored)
             /\ stored' = <<>>]_vars

-----------------------------------------------------------------------------
(* Claims about record writing, under SpecRecords *)

\* a string that is empty or white space only
Blank(v) == v.t = "str" /\ trim(v.s) = <<>>

\* the record read() returns for the i-th entry the step appended
AppendedRow(i) == ReadAll(file').rows[Len(ReadAll(file).rows) + i]

\* the same value up to the letter case of a string
SameUpToCase(a, b) == a.t = b.t /\ toLowerCase(a.s) = toLowerCase(b.s)

\* C23: Row-encode emits values in schema column order whatever the key
\* order of the entry: write() of {age: 35, name: "Nancy"} under the schema
\* [name, age] puts Nancy in the first column and 35 in the second, and a
\* read() that returns gives name = Nancy (up to letter case) and age = 35.
C23_SchemaColumnOrder ==
    [][(op'.name = "write" /\ ReadAll(file).st = "ok"
            /\ \A i \in 1..Len(Appended) : \A h \in HeaderSet :
                  ~Blank(Get(Appended[i], h)))
          => \A i \in 1..Len(Appended) :
                /\ file'[Len(file) + i] =
                      join([j \in 1..Len(headers) |-> Get(Appended[i], headers[j]).s],
                           delimiter)
                /\ ReadAll(file').st = "ok"
                      => \A h \in HeaderSet :
                            SameUpToCase(Get(AppendedRow(i), h), Get(Appended[i], h))]_vars

\* C29: Column alignment survives empty values. write() of an entry in
\* which a field holds the empty string or white space only, followed by
\* read(), completes without error and returns every other field of the
\* entry with its own value (under the delimiter ",").
C29_EmptyValuesKeepColumns ==
    [][(op'.name = "write" /\ delimiter = "," /\ ReadAll(file).st = "ok"
            /\ \E i \in 1..Len(Appended) : \E h \in HeaderSet :
                  Blank(Get(Appended[i], h)))
          => /\ ReadAll(file').st = "ok"
             /\ \A i \in 1..Len(Appended) : \A h \in HeaderSet :
                   ~Blank(Get(Appended[i], h))
                       => SameUpToCase(Get(AppendedRow(i), h), Get(Appended[i], h))]_vars

-----------------------------------------------------------------------------
(* Further claims about the collection operations, under SpecOps *)

\* the records of rs that do not satisfy pred, in their order
Unmatched(rs, pred) == SelectSeq(rs, LAMBDA x : ~Holds(pred, x))

\* C24: deleteAll(pred) removes only matching records. Every record that
\* does not satisfy pred is returned by read() after the call, once and in
\* its original relative order; when no record satisfies pred the records
\* are unchanged.
C24_DeleteAllKeepsOthers ==
    [][(op'.name = "deleteAll" /\ op'.st = "ok" /\ ReadAll(file).st = "ok")
          => LET R  == ReadAll(file).rows
                 R2 == ReadAll(file')
             IN  /\ R2.st = "ok"
                 /\ Unmatched(R2.rows, op'.pred) = Unmatched(R, op'.pred)
                 /\ (\A i \in 1..Len(R) : ~Holds(op'.pred, R[i])) => R2.rows = R]_vars

\* the step is a delete, a deleteAll or a sort with the write flag
IsRewrite(o) == o.name \in {"delete", "deleteAll"} \/ (o.name = "sort" /\ o.flag)

\* C26: A rewrite never alters a surviving record. After delete, deleteAll
\* or sort with rewrite every record line of the file is, character for
\* character, a record line the file held before the operation.
C26_RewriteKeepsRawLines ==
    [][(IsRewrite(op') /\ op'.st = "ok" /\ ReadAll(file).st = "ok")
          => \A i \in 2..Len(file') : \E j \in 2..Len(file) : file'[i] = file[j]]_vars

\* C27: Header line invariant. On a file its constructor created, after any
\* sequence of write, store, flush, clear, delete, deleteAll and sort calls
\* the first line of the file is the canonical names name, age joined by the
\* delimiter, and no call changes the schema or the delimiter.
C27_HeaderLineInvariant ==
    [][obj' \in {"csv", "index"}
          => /\ exists'
             /\ headers' = OpsHeaders
             /\ file'[1] = join(OpsHeaders, delimiter')
             /\ obj \in {"csv", "index"} => delimiter' = delimiter]_vars

\* delete() has rewritten a file constructed with ["name", "n:age?"] and
\* left one record under the header line
C27_Witness ==
    /\ obj = "csv"
    /\ optsHeaders = OpsTypedHeaders
    /\ op.name = "delete"
    /\ op.rows = 2
    /\ Len(file) = 2
    /\ file[1] = <<"n","a","m","e",",","a","g","e">>

-----------------------------------------------------------------------------
(* Claim about the line reader, under SpecLines *)

\* the lines of a file: the texts between line breaks, and the text after
\* the last line break when there is any
LinesOfFile(f) == IF f[Len(f)] = <<>> THEN SubSeq(f, 1, Len(f) - 1) ELSE f

\* C30: readLinesSync calls the callback once for every line of the file,
\* in file order, with the indices 0, 1, 2, ..., the last line included when
\* no line break follows it; with a positive limit n, for the first n lines
\* only.
C30_EveryLineOnce ==
    op.name = "readLinesSync"
        => LET ls == LinesOfFile(file)
               n  == IF lineCalls.limit > 0 /\ lineCalls.limit < Len(ls)
                     THEN lineCalls.limit ELSE Len(ls)
           IN  lineCalls.cbs = [k \in 1..n |-> [line |-> ls[k], i |-> k - 1]]

-----------------------------------------------------------------------------
(* Claim about the store buffer, under SpecFlush *)

\* C25: No stored entry is lost by a flush. When flush() completes, the
\* entries store() added to the buffer while the flush was suspended are
\* each in the file, after the entries the flush wrote, or still in the
\* buffer.
C25_FlushLosesNoEntry ==
    [][(op'.name = "flush" /\ op'.st = "ok" /\ pending.active)
          => \E k \in Len(pending.lines)..Len(stored) :
                /\ file' = file \o rowLines(headers, SubSeq(stored, 1, k), delimiter)
                /\ stored' = SubSeq(stored, k + 1, Len(stored))]_vars

-----------------------------------------------------------------------------
(* Claim about the queries, under SpecQuery *)

IsQuery(o) ==
    o.name \in {"read", "find", "filter", "map", "toJson"} \/ (o.name = "sort" /\ ~o.flag)

\* C28: Query operations are read-only. read, find, filter, map, sort
\* without the write flag and toJson leave the file and the store buffer as
\* they were, so read() returns the same records after them as before.
C28_QueriesReadOnly ==
    [][IsQuery(op')
          => /\ exists' = exists
             /\ file' = file
             /\ stored' = stored
             /\ ReadAll(file') = ReadAll(file)]_vars

\* toJson() has exported a file of one record while an entry waits in the
\* store buffer
C28_Witness ==
    /\ op.name = "toJson"
    /\ op.st = "ok"
    /\ Len(file) = 2
    /\ Len(stored) = 1
    /\ Len(json) = 3

-----------------------------------------------------------------------------
(* Claims about the JSON export and import, under SpecJson *)

\* the same object: the same property names with the same values
SameObject(a, b) ==
    /\ KeysOf(a) = KeysOf(b)
    /\ \A k \in KeysOf(a) : Get(a, k) = Get(b, k)

\* C21: JSON export agrees with read-all. toJson() writes "[", one object
\* per record line in file order with a separator between two objects, and
\* "]"; each object equals the record read() returns for the line, under
\* either delimiter.
C21_JsonExportAgreesWithRead ==
    (op.name = "toJson" /\ ReadAll(file).st = "ok")
        => LET R == ReadAll(file).rows
               n == Len(R)
           IN  /\ op.st = "ok"
               /\ Len(json) = IF n = 0 THEN 2 ELSE 2 * n + 1
               /\ json[1] = JsonOpen
               /\ json[Len(json)] = JsonClose
               /\ \A i \in 1..n : json[2 * i].c = "{}" /\ SameObject(json[2 * i].o, R[i])
               /\ \A i \in 1..(n - 1) : json[2 * i + 1] = JsonSeparator

\* read() of the collection the step returns
ReadAllNext(f) ==
    IF obj' = "index" THEN indexRead(f, delimiter', headers')
    ELSE read(f, delimiter', headers')

\* C22: JSON import. fromJson(json, output) returns a collection whose
\* schema is the key list of the first element of the array and whose read()
\* returns the objects of the array (strings up to letter case), in array
\* order and no other record.
C22_JsonImport ==
    [][op'.name = "fromJson"
          => /\ obj' \in {"csv", "index"}
             /\ headers' = keys(written'[1])
             /\ ReadAllNext(file').st = "ok"
             /\ Len(ReadAllNext(file').rows) = Len(written')
             /\ \A i \in 1..Len(written') : \A k \in KeysOf(written'[1]) :
                   SameUpToCase(Get(ReadAllNext(file').rows[i], k), Get(written'[i], k))]_vars

====
